---- MODULE Spec2Model ----
(***************************************************************************)
(* Model of src/nodejs/enhanced_discord.js: the argument tokenizer          *)
(* (Bot._parseArgs), the check chain (Command.performChecks) and the        *)
(* message dispatcher (Bot.on_message / Bot._commandHandler).               *)
(*                                                                          *)
(* A JavaScript string is modelled as a sequence of one-character strings,  *)
(* so that it can be scanned character by character as the code does.       *)
(***************************************************************************)
EXTENDS Integers, Sequences, FiniteSets, TLC

\* ------------------------------------------------------------------------
\* Bounds
\* ------------------------------------------------------------------------

\* Longest argument remainder enumerated exhaustively by the tokenizer
\* specification.
MaxLen == 4

\* Most commands in the dispatcher's registry.
MaxCmds == 2

\* Most checks of one command in the dispatcher's registry.
MaxChecks == 1

\* Most global checks of the dispatcher.
MaxGlobalChecks == 2

\* Longest check list handed to performChecks on its own.
MaxChkLen == 4

\* Most characters, over all its strings, of a token sequence that is
\* written out and tokenized again.
MaxTotal == 3

\* ------------------------------------------------------------------------
\* Characters and strings
\* ------------------------------------------------------------------------

SPACE == " "
QUOTE == "\""
BACKSLASH == "\\"

\* The characters the tokenizer distinguishes, and two ordinary ones.
Alphabet == {"a", "b", SPACE, QUOTE, BACKSLASH}

\* All strings over Alphabet of length at most n.
StringsUpTo(n) == UNION {[1..k -> Alphabet] : k \in 0..n}

\* The remainders of the documented examples.
ExPlain == <<"a", " ", "b", " ", "c">>
ExQuoted == <<"a", " ", "\"", "b", " ", "c", "\"", " ", "d">>
ExEscapedSpace == <<"a", "\\", " ", "b">>
ExUnterminated ==
    <<"\"", "u", "n", "t", "e", "r", "m", "i", "n", "a", "t", "e", "d">>
ExDoubleSpace == <<"a", " ", " ", "b">>
ExEscapedQuotes == <<"\\", "\"", "q", "u", "o", "t", "e", "d", "\\", "\"">>

Examples ==
    {ExPlain, ExQuoted, ExEscapedSpace, ExUnterminated, ExDoubleSpace,
     ExEscapedQuotes}

\* A command word that precedes the remainder in a message content.
Verb == <<"$", "p">>

\* ------------------------------------------------------------------------
\* String helpers of the JavaScript runtime used by the code
\* ------------------------------------------------------------------------

RECURSIVE SplitFrom(_, _, _)
SplitFrom(s, k, cur) ==
    IF k > Len(s) THEN <<cur>>
    ELSE IF s[k] = SPACE THEN <<cur>> \o SplitFrom(s, k + 1, <<>>)
    ELSE SplitFrom(s, k + 1, Append(cur, s[k]))

\* s.split(" "): the pieces between the spaces, empty pieces included.
split(s) == SplitFrom(s, 1, <<>>)

\* parts.slice(1)
slice1(parts) == IF parts = <<>> THEN <<>> ELSE Tail(parts)

RECURSIVE join(_)
\* parts.join(" ")
join(parts) ==
    IF parts = <<>> THEN <<>>
    ELSE IF Len(parts) = 1 THEN parts[1]
    ELSE parts[1] \o <<SPACE>> \o join(Tail(parts))

\* ------------------------------------------------------------------------
\* Bot._parseArgs: the tokenizer
\* ------------------------------------------------------------------------

\* let argStr = str.split(" ").slice(1).join(" ");
ArgStrOf(s) == join(slice1(split(s)))

\* The locals of the scan before the first character.
ScanInit ==
    [argArr |-> <<>>, buffer |-> <<>>, inQuote |-> FALSE, escaped |-> FALSE,
     ready |-> FALSE]

\* Variant: the escape state is not cleared after the escaped character.
EscapedBranchSticky(s, char) == [s EXCEPT !.buffer = Append(@, char)]

\* if (escaped) { buffer += char; escaped = false; }
EscapedBranch(s, char) ==
    [s EXCEPT !.buffer = Append(@, char), !.escaped = FALSE]

\* Variant: closing a quote does not mark the token complete.
QuoteBranchNoFlush(s) == [s EXCEPT !.inQuote = ~@]

\* else if (char === '"') { if (inQuote) {ready = true; inQuote = false;}
\*                          else {inQuote = true;} }
QuoteBranch(s) ==
    IF s.inQuote
    THEN [s EXCEPT !.ready = TRUE, !.inQuote = FALSE]
    ELSE [s EXCEPT !.inQuote = TRUE]

\* Variant: a space delimits inside quotes too.
IsDelimiterAnywhere(s, char) == char = SPACE

\* the condition of: else if (char === ' ' && !inQuote)
IsDelimiter(s, char) == char = SPACE /\ ~s.inQuote

\* ... { ready = true; }
SpaceBranch(s) == [s EXCEPT !.ready = TRUE]

\* Variant: a backslash is an ordinary character.
BackslashBranchLiteral(s) == [s EXCEPT !.buffer = Append(@, BACKSLASH)]

\* else if (char === "\\") { escaped = true; }
BackslashBranch(s) == [s EXCEPT !.escaped = TRUE]

\* else { buffer += char; }
PlainBranch(s, char) == [s EXCEPT !.buffer = Append(@, char)]

\* Variant: a completed token is pushed even when the buffer is empty.
FlushEvenEmpty(s) ==
    IF s.ready
    THEN [s EXCEPT !.argArr = Append(@, s.buffer), !.ready = FALSE,
                   !.buffer = <<>>]
    ELSE s

\* if (ready && buffer) argArr.push(buffer);
\* if (ready) { ready = false; buffer = ""; }
Flush(s) ==
    LET pushed == IF s.ready /\ s.buffer # <<>>
                  THEN [s EXCEPT !.argArr = Append(@, s.buffer)]
                  ELSE s
    IN IF pushed.ready
       THEN [pushed EXCEPT !.ready = FALSE, !.buffer = <<>>]
       ELSE pushed

\* One iteration of: for (let char of argStr) { ... }
ScanChar(s, char) ==
    Flush(IF s.escaped THEN EscapedBranch(s, char)
          ELSE IF char = QUOTE THEN QuoteBranch(s)
          ELSE IF IsDelimiter(s, char) THEN SpaceBranch(s)
          ELSE IF char = BACKSLASH THEN BackslashBranch(s)
          ELSE PlainBranch(s, char))

\* Variant: the last buffer is dropped when the scan ends inside a quote.
FinalFlushClosedOnly(s) ==
    IF s.buffer # <<>> /\ ~s.inQuote THEN Append(s.argArr, s.buffer)
    ELSE s.argArr

\* if (buffer) argArr.push(buffer); return argArr;
FinalFlush(s) ==
    IF s.buffer # <<>> THEN Append(s.argArr, s.buffer) ELSE s.argArr

RECURSIVE ScanFrom(_, _, _)
ScanFrom(s, text, k) ==
    IF k > Len(text) THEN s
    ELSE CHOOSE r \in {ScanFrom(n, text, k + 1) :
                          n \in {ScanChar(s, text[k])}} : TRUE

\* Variant: the whole content is tokenized, command word included.
ParseArgsWhole(s) == FinalFlush(ScanFrom(ScanInit, s, 1))

\* Bot._parseArgs(str) as a whole.
ParseArgs(s) ==
    CHOOSE r \in {FinalFlush(last) :
                    last \in {ScanFrom(ScanInit, text, 1) :
                                 text \in {ArgStrOf(s)}}} : TRUE

\* ------------------------------------------------------------------------
\* Messages, checks, commands
\* ------------------------------------------------------------------------

Ping == <<"p", "i", "n", "g">>
Pong == <<"p", "o", "n", "g">>

\* message.author: the account's id and its bot flag. The client's own
\* account is a bot account; so is any other bot's.
Authors ==
    {[id |-> "self", bot |-> TRUE],
     [id |-> "user", bot |-> FALSE],
     [id |-> "otherBot", bot |-> TRUE]}

\* message.content
Contents ==
    {<<"$">> \o Ping \o <<SPACE, "a", SPACE, QUOTE, "b", SPACE, "c", QUOTE>>,
     <<"$">> \o Pong,
     Ping}

Messages == [author : Authors, content : Contents]

\* No message (an unused slot of the inbox).
NoMsg == [author |-> [id |-> "nobody", bot |-> FALSE], content |-> <<"-">>]

\* What a check does when it is called with a message: returns a truthy
\* value, returns a falsy value, or throws.
Outcomes == {"T", "F", "X"}

\* The error a throwing check raises, the error a handler raises, and the
\* error a custom error handler raises itself: three different objects.
CheckError == "PermissionError"
HandlerErrors == {"E1"}
ErrorHandlerError == "E2"
NoError == "none"

\* s.startsWith(p)
StartsWith(s, p) == Len(p) <= Len(s) /\ SubSeq(s, 1, Len(p)) = p

\* s.replace(p, ""): the first occurrence of p removed
ReplaceFirst(s, p) ==
    LET hits == {k \in 1..(Len(s) - Len(p) + 1) :
                    SubSeq(s, k, k + Len(p) - 1) = p}
    IN IF hits = {} THEN s
       ELSE LET k == CHOOSE h \in hits : \A g \in hits : h <= g
            IN SubSeq(s, 1, k - 1) \o SubSeq(s, k + Len(p), Len(s))

\* let name = message.content.split(" ")[0].replace(this.prefix, "");
NameOf(content, pfx) == ReplaceFirst(split(content)[1], pfx)

\* Variant: every check is called and the results are combined at the end.
PerformChecksEager(chks, beh) ==
    [ret |-> IF \E k \in 1..Len(chks) : beh[chks[k]] = "X" THEN "throw"
             ELSE IF \E k \in 1..Len(chks) : beh[chks[k]] = "F" THEN "false"
             ELSE "true",
     calls |-> chks]

\* Variant: a check that throws counts as a check that returns false.
PerformChecksQuiet(chks, beh) ==
    LET bad == {k \in 1..Len(chks) : beh[chks[k]] # "T"}
        first == CHOOSE k \in bad : \A j \in bad : k <= j
    IN IF bad = {} THEN [ret |-> "true", calls |-> chks]
       ELSE [ret |-> "false", calls |-> SubSeq(chks, 1, first)]

RECURSIVE PerformChecksFrom(_, _, _)
PerformChecksFrom(chks, beh, k) ==
    IF k > Len(chks) THEN [ret |-> "true", calls |-> <<>>]
    ELSE IF beh[chks[k]] = "X" THEN [ret |-> "throw", calls |-> <<chks[k]>>]
    ELSE IF beh[chks[k]] = "F" THEN [ret |-> "false", calls |-> <<chks[k]>>]
    ELSE LET rest == PerformChecksFrom(chks, beh, k + 1)
         IN [rest EXCEPT !.calls = <<chks[k]>> \o @]

\* Command.performChecks(message): for (let check of this.checks)
\*     if (!check(message)) return false;  return true;
\* chks is the check list, beh what each check does with the message; the
\* value is what the call returns (or that it throws) and the checks it
\* called, in order.
PerformChecks(chks, beh) == PerformChecksFrom(chks, beh, 1)

\* Variant: a failing global check does not stop the later ones.
GlobalGateEager(chks, beh) ==
    [ret |-> IF \E k \in 1..Len(chks) : beh[chks[k]] = "X" THEN "throw"
             ELSE IF \E k \in 1..Len(chks) : beh[chks[k]] = "F" THEN "return"
             ELSE "pass",
     calls |-> chks]

RECURSIVE GlobalGateFrom(_, _, _)
GlobalGateFrom(chks, beh, k) ==
    IF k > Len(chks) THEN [ret |-> "pass", calls |-> <<>>]
    ELSE IF beh[chks[k]] = "X" THEN [ret |-> "throw", calls |-> <<chks[k]>>]
    ELSE IF beh[chks[k]] = "F" THEN [ret |-> "return", calls |-> <<chks[k]>>]
    ELSE LET rest == GlobalGateFrom(chks, beh, k + 1)
         IN [rest EXCEPT !.calls = <<chks[k]>> \o @]

\* _commandHandler: for (let check of this.checks)
\*     if (!check(message)) return;
GlobalGate(chks, beh) == GlobalGateFrom(chks, beh, 1)

\* A check list of n checks; a check is known by its place in the list.
CheckList(n) == [k \in 1..n |-> k]

\* new Command(commandFunction, undefined, undefined, checks): the name is
\* the function's own name.
NewCommand(fname, chks) ==
    [name |-> fname, checks |-> chks, commandFunction |-> fname]

NewCommands ==
    {NewCommand(f, CheckList(n)) : f \in {Ping, Pong}, n \in 0..MaxChecks}

\* One entry of a dispatch's trace: which call was made and what it gave.
Event(ev, cmd, k, res, msg, a) ==
    [ev |-> ev, cmd |-> cmd, k |-> k, res |-> res, msg |-> msg, args |-> a]

\* The trace entries of a run of checks of command cmd (0: global checks).
CheckEvents(ev, cmd, calls, beh) ==
    [n \in 1..Len(calls) |->
        Event(ev, cmd, calls[n], beh[calls[n]], NoMsg, <<>>)]

MsgIds == {1, 2}

\* ------------------------------------------------------------------------
\* Command: its constructor and Command._parseArgs
\* ------------------------------------------------------------------------

\* An optional argument: given with a value, or left out (undefined).
Given(v) == [given |-> TRUE, val |-> v]
Undefined == [given |-> FALSE, val |-> <<>>]

\* !x for an optional string argument: undefined and "" are falsy.
Falsy(x) == ~x.given \/ x.val = <<>>

\* s.includes(" ")
IncludesSpace(s) == \E k \in 1..Len(s) : s[k] = SPACE

\* A function object: its name property, the parameter names it declares
\* and the text toString() gives. A bound function is named "bound <name>"
\* and shows no parameters; an anonymous arrow function has the empty name.
Fn(fname, params, text) ==
    [defined |-> TRUE, name |-> fname, params |-> params, text |-> text]

NoFunction ==
    [defined |-> FALSE, name |-> <<>>, params |-> <<>>, text |-> <<>>]

FnHello ==
    Fn(<<"h", "e", "l", "l", "o">>, << <<"m", "s", "g">> >>,
       <<"a", "s", "y", "n", "c", " ",
         "f", "u", "n", "c", "t", "i", "o", "n", " ", "h", "e", "l", "l",
         "o", " ", "(", "m", "s", "g", ")", " ", "{", "}">>)

FnHidden ==
    Fn(<<"h", "i", "d", "d", "e", "n">>,
       << <<"m", "s", "g">>, <<"a", "r", "g", "1">> >>,
       <<"a", "s", "y", "n", "c", " ",
         "f", "u", "n", "c", "t", "i", "o", "n", " ", "h", "i", "d", "d",
         "e", "n", "(", "m", "s", "g", ",", " ", "a", "r", "g", "1", ")",
         "{", "}">>)

FnNoop ==
    Fn(<<"n", "o", "o", "p">>, <<>>,
       <<"f", "u", "n", "c", "t", "i", "o", "n", " ", "n", "o", "o", "p",
         "(", ")", "{", "}">>)

FnBound ==
    Fn(<<"b", "o", "u", "n", "d", " ", "h", "e", "l", "l", "o">>, <<>>,
       <<"f", "u", "n", "c", "t", "i", "o", "n", " ", "(", ")", " ", "{",
         " ", "[", "n", "a", "t", "i", "v", "e", " ", "c", "o", "d", "e",
         "]", " ", "}">>)

FnArrow ==
    Fn(<<>>, << <<"m", "s", "g">>, <<"a", "r", "g", "1">> >>,
       <<"(", "m", "s", "g", ",", " ", "a", "r", "g", "1", ")", " ", "=",
         ">", " ", "{", "}">>)

Functions == {FnHello, FnHidden, FnNoop, FnBound, FnArrow}

\* string.slice(a, b), with 0 <= a and 0 <= b
Slice(s, a, b) ==
    LET e == IF b < Len(s) THEN b ELSE Len(s)
    IN IF a >= e THEN <<>> ELSE SubSeq(s, a + 1, e)

\* s.replace(/ /g, "")
RECURSIVE StripSpaces(_)
StripSpaces(s) ==
    IF s = <<>> THEN <<>>
    ELSE IF Head(s) = SPACE THEN StripSpaces(Tail(s))
    ELSE <<Head(s)>> \o StripSpaces(Tail(s))

\* s.replace(/,/g, " ")
CommasToSpaces(s) == [k \in 1..Len(s) |-> IF s[k] = "," THEN SPACE ELSE s[k]]

\* for (let charIndex in string) { ... }: the loop from index k (counted
\* from 0 as in the code) with the current start and stop
RECURSIVE FindParens(_, _, _, _)
FindParens(string, k, start, stop) ==
    IF k >= Len(string) THEN [start |-> start, stop |-> stop]
    ELSE LET ch == string[k + 1]
             start2 == IF start = 0 /\ ch = "(" THEN k ELSE start
         IN IF start2 # 0 /\ ch = ")"
            THEN [start |-> start2, stop |-> k]
            ELSE FindParens(string, k + 1, start2, stop)

\* Command._parseArgs(funct)
CommandParseArgs(funct) ==
    LET string == funct.text
        found == FindParens(string, 0, 0, 0)
        args == CommasToSpaces(
                    StripSpaces(Slice(string, found.start + 1, found.stop)))
    IN Slice(args, 1, Len(args))

NotBuilt ==
    [status |-> "none", name |-> <<>>, usage |-> <<>>, checks |-> <<>>,
     commandFunction |-> NoFunction]

\* new Command(commandFunction, name, usage, checks)
CommandConstructor(commandFunction, nameArg, usageArg, checksArg) ==
    IF ~commandFunction.defined
    THEN [NotBuilt EXCEPT !.status = "TypeError"]
    ELSE [status |-> "built",
          name |-> IF Falsy(nameArg) \/ IncludesSpace(nameArg.val)
                   THEN commandFunction.name
                   ELSE nameArg.val,
          usage |-> IF Falsy(usageArg)
                    THEN CommandParseArgs(commandFunction)
                    ELSE usageArg.val,
          checks |-> IF checksArg.given THEN checksArg.val ELSE <<>>,
          commandFunction |-> commandFunction]

\* The arguments of a constructor call.
CtorCalls ==
    [commandFunction : Functions \cup {NoFunction},
     name : {Undefined, Given(<<>>), Given(Ping), Given(<<"a", SPACE, "b">>)},
     usage : {Undefined, Given(<<>>), Given(<<"x">>)},
     checks : {Undefined, Given(<<1>>)}]

NoCall ==
    [commandFunction |-> NoFunction, name |-> Undefined, usage |-> Undefined,
     checks |-> Undefined]

\* ------------------------------------------------------------------------
\* State
\* ------------------------------------------------------------------------

VARIABLES
    str,        \* _parseArgs: its parameter, the message content
    argStr,     \* _parseArgs: the content after the first space
    pos,        \* _parseArgs: index of the next character of argStr
    scan,       \* _parseArgs: argArr, buffer, inQuote, escaped, ready
    result,     \* _parseArgs: the returned array
    tpc,        \* _parseArgs: "start", "scan" or "done"
    chkIn,      \* performChecks on its own: what each check of the list does
    chkOut,     \* performChecks on its own: its outcome, once it has run
    prefix,     \* Bot.prefix
    commands,   \* Bot.commands
    checks,     \* Bot.checks
    errorHandler, \* Bot.errorHandler: "default" or "custom"
    running,    \* the dispatch whose code is executing now; 0: none
    message,    \* per dispatch: the message delivered to on_message
    pc,         \* per dispatch: where it stands
    name,       \* per dispatch: _commandHandler's local name
    args,       \* per dispatch: _commandHandler's local args
    idx,        \* per dispatch: place of the loop over this.commands
    awaiting,   \* per dispatch: the awaited promise settles or hangs
    caught,     \* per dispatch: the error in the catch clause
    thrown,     \* per dispatch: the error that left the dispatch
    log,        \* per dispatch: the calls it made, in order
    orig,       \* the token sequence a content was written from
    ctorArgs,   \* new Command(...): the arguments of the call
    built,      \* new Command(...): the object built, or that it threw
    late        \* history: the places of the registry that were filled
                \* while a dispatch was suspended on its handler

tokVars == <<str, argStr, pos, scan, result, tpc>>
chkVars == <<chkIn, chkOut>>
botVars == <<prefix, commands, checks, errorHandler>>
dispVars == <<running, message, pc, name, args, idx, awaiting, caught,
              thrown, log>>
rtVars == <<orig>>
ctorVars == <<ctorArgs, built>>
histVars == <<late>>
vars == <<tokVars, chkVars, rtVars, ctorVars, histVars, botVars, dispVars>>

\* The parts of the state a specification does not exercise.
TokIdle ==
    /\ str = <<>> /\ argStr = <<>> /\ pos = 0 /\ scan = ScanInit
    /\ result = <<>> /\ tpc = "idle"

NotRun == [ret |-> "none", calls |-> <<>>]

ChkIdle == chkIn = <<>> /\ chkOut = NotRun

RtIdle == orig = <<>>

CtorIdle == ctorArgs = NoCall /\ built = NotBuilt

HistIdle == late = {}

DispInit(inbox) ==
    /\ running = 0
    /\ message = inbox
    /\ pc = [m \in MsgIds |-> "new"]
    /\ name = [m \in MsgIds |-> <<>>]
    /\ args = [m \in MsgIds |-> <<>>]
    /\ idx = [m \in MsgIds |-> 0]
    /\ awaiting = [m \in MsgIds |-> "none"]
    /\ caught = [m \in MsgIds |-> NoError]
    /\ thrown = [m \in MsgIds |-> NoError]
    /\ log = [m \in MsgIds |-> <<>>]

\* new Bot({prefix: "$"}) or new Bot({prefix: "$", errorHandler: ...})
BotInit ==
    /\ prefix = <<"$">>
    /\ commands = <<>>
    /\ checks = <<>>
    /\ errorHandler \in {"default", "custom"}

BotIdle == BotInit /\ errorHandler = "default"

\* ------------------------------------------------------------------------
\* The tokenizer run on bounded inputs, one loop iteration per step
\* ------------------------------------------------------------------------

Remainders == StringsUpTo(MaxLen) \cup Examples

\* Contents handed to _parseArgs: a verb followed by a remainder, and bare
\* strings (whose first word is dropped like a verb).
Inputs == {Verb \o <<SPACE>> \o r : r \in Remainders} \cup StringsUpTo(MaxLen)

TokInit ==
    /\ str \in Inputs
    /\ argStr = <<>>
    /\ pos = 0
    /\ scan = ScanInit
    /\ result = <<>>
    /\ tpc = "start"
    /\ ChkIdle
    /\ RtIdle
    /\ CtorIdle
    /\ HistIdle
    /\ BotIdle
    /\ DispInit([m \in MsgIds |-> NoMsg])

\* line 185-190: split off the first word, initialise the locals
TokStart ==
    /\ tpc = "start"
    /\ argStr' = ArgStrOf(str)
    /\ pos' = 1
    /\ scan' = ScanInit
    /\ tpc' = "scan"
    /\ UNCHANGED <<str, result, chkVars, rtVars, ctorVars, histVars, botVars,
                   dispVars>>

\* line 191-221: one iteration of the loop
TokStep ==
    /\ tpc = "scan"
    /\ pos <= Len(argStr)
    /\ scan' = ScanChar(scan, argStr[pos])
    /\ pos' = pos + 1
    /\ UNCHANGED <<str, argStr, result, tpc, chkVars, rtVars, ctorVars,
                   histVars, botVars, dispVars>>

\* line 222-225: the loop is over
TokFinish ==
    /\ tpc = "scan"
    /\ pos > Len(argStr)
    /\ result' = FinalFlush(scan)
    /\ tpc' = "done"
    /\ UNCHANGED <<str, argStr, pos, scan, chkVars, rtVars, ctorVars,
                   histVars, botVars, dispVars>>

TokNext == TokStart \/ TokStep \/ TokFinish

SpecTok == TokInit /\ [][TokNext]_vars

\* ------------------------------------------------------------------------
\* performChecks run on its own on bounded check lists
\* ------------------------------------------------------------------------

ChkInit ==
    /\ chkIn \in UNION {[1..n -> Outcomes] : n \in 0..MaxChkLen}
    /\ chkOut = NotRun
    /\ TokIdle
    /\ RtIdle
    /\ CtorIdle
    /\ HistIdle
    /\ BotIdle
    /\ DispInit([m \in MsgIds |-> NoMsg])

\* command.performChecks(message) for a command with Len(chkIn) checks
ChkRun ==
    /\ chkOut = NotRun
    /\ chkOut' = PerformChecks(CheckList(Len(chkIn)), chkIn)
    /\ UNCHANGED <<chkIn, tokVars, rtVars, ctorVars, histVars, botVars,
                   dispVars>>

ChkNext == ChkRun

SpecChk == ChkInit /\ [][ChkNext]_vars

\* ------------------------------------------------------------------------
\* The tokenizer run on written-out token sequences
\* ------------------------------------------------------------------------

\* The non-empty strings of exactly n characters.
StringsOf(n) == [1..n -> Alphabet]

\* The sequences of non-empty strings that hold at most n characters in all.
RECURSIVE TokenSeqs(_)
TokenSeqs(n) ==
    {<<>>} \cup
    UNION {{<<s>> \o rest : s \in StringsOf(k), rest \in TokenSeqs(n - k)} :
              k \in 1..n}

\* s with a backslash put before every double-quote and backslash.
RECURSIVE Escape(_)
Escape(s) ==
    IF s = <<>> THEN <<>>
    ELSE (IF Head(s) \in {QUOTE, BACKSLASH}
          THEN <<BACKSLASH, Head(s)>>
          ELSE <<Head(s)>>) \o Escape(Tail(s))

\* A token sequence written out: every string escaped and wrapped in
\* double-quotes, the strings joined by single spaces.
Encode(ts) ==
    join([k \in 1..Len(ts) |-> <<QUOTE>> \o Escape(ts[k]) \o <<QUOTE>>])

RtInit ==
    /\ orig \in TokenSeqs(MaxTotal)
    /\ str = Verb \o <<SPACE>> \o Encode(orig)
    /\ argStr = <<>>
    /\ pos = 0
    /\ scan = ScanInit
    /\ result = <<>>
    /\ tpc = "start"
    /\ ChkIdle
    /\ CtorIdle
    /\ HistIdle
    /\ BotIdle
    /\ DispInit([m \in MsgIds |-> NoMsg])

SpecRound == RtInit /\ [][TokNext]_vars

\* ------------------------------------------------------------------------
\* The Command constructor run on bounded arguments
\* ------------------------------------------------------------------------

CtorInit ==
    /\ ctorArgs \in CtorCalls
    /\ built = NotBuilt
    /\ HistIdle
    /\ TokIdle
    /\ ChkIdle
    /\ RtIdle
    /\ BotIdle
    /\ DispInit([m \in MsgIds |-> NoMsg])

\* new Command(...ctorArgs)
Construct ==
    /\ built = NotBuilt
    /\ built' = CommandConstructor(ctorArgs.commandFunction, ctorArgs.name,
                                   ctorArgs.usage, ctorArgs.checks)
    /\ UNCHANGED <<ctorArgs, tokVars, chkVars, rtVars, histVars, botVars,
                   dispVars>>

CtorNext == Construct

SpecCmd == CtorInit /\ [][CtorNext]_vars

\* ------------------------------------------------------------------------
\* The dispatcher
\* ------------------------------------------------------------------------

\* Variant: only the prefix is tested.
FilterPrefixOnly(msg) == StartsWith(msg.content, prefix)

\* on_message: !message.author.bot && message.content.startsWith(this.prefix)
Filter(msg) == ~msg.author.bot /\ StartsWith(msg.content, prefix)

\* Bot.addCommand(...cmds), between two pieces of running code
AddCommand ==
    /\ running = 0
    /\ \E n \in 1..2 : \E cmds \in [1..n -> NewCommands] :
          /\ Len(commands) + n <= MaxCmds
          /\ commands' = commands \o cmds
    /\ UNCHANGED <<tokVars, chkVars, rtVars, ctorVars, histVars, prefix,
                   checks, errorHandler, dispVars>>

\* Bot.addCheck(...chks)
AddCheck ==
    /\ running = 0
    /\ \E n \in 1..2 :
          /\ Len(checks) + n <= MaxGlobalChecks
          /\ checks' = CheckList(Len(checks) + n)
    /\ UNCHANGED <<tokVars, chkVars, rtVars, ctorVars, histVars, prefix,
                   commands, errorHandler, dispVars>>

\* Command.addCheck(...chks) on a command of the registry
CommandAddCheck ==
    /\ running = 0
    /\ \E i \in 1..Len(commands) : \E n \in 1..2 :
          /\ Len(commands[i].checks) + n <= MaxChecks
          /\ commands' = [commands EXCEPT
                 ![i].checks = CheckList(Len(commands[i].checks) + n)]
    /\ UNCHANGED <<tokVars, chkVars, rtVars, ctorVars, histVars, prefix,
                   checks, errorHandler, dispVars>>

\* on_message(message) up to the end of the global checks of
\* _commandHandler (lines 146-164)
Receive(m) ==
    /\ running = 0
    /\ pc[m] = "new"
    /\ message[m] # NoMsg
    /\ IF ~Filter(message[m])
       THEN /\ pc' = [pc EXCEPT ![m] = "ignored"]
            /\ UNCHANGED <<running, name, args, idx, thrown, log>>
       ELSE \E beh \in [1..Len(checks) -> Outcomes] :
              LET gate == GlobalGate(checks, beh)
              IN /\ name' = [name EXCEPT
                        ![m] = NameOf(message[m].content, prefix)]
                 /\ args' = [args EXCEPT ![m] = ParseArgs(message[m].content)]
                 /\ log' = [log EXCEPT
                        ![m] = CheckEvents("globalCheck", 0, gate.calls, beh)]
                 /\ pc' = [pc EXCEPT ![m] =
                        CASE gate.ret = "pass" -> "walk"
                          [] gate.ret = "return" -> "done"
                          [] OTHER -> "failed"]
                 /\ thrown' = [thrown EXCEPT ![m] =
                        IF gate.ret = "throw" THEN CheckError ELSE NoError]
                 /\ idx' = [idx EXCEPT ![m] = 1]
                 /\ running' = IF gate.ret = "pass" THEN m ELSE 0
    /\ UNCHANGED <<tokVars, chkVars, rtVars, ctorVars, histVars, botVars,
                   message, awaiting, caught>>

\* Variant: the loop goes over the list as it was when the dispatch was
\* first suspended, and ends before a command appended since.
WalkEndBeforeLate(m) ==
    /\ running = m
    /\ pc[m] = "walk"
    /\ idx[m] > Len(commands) \/ idx[m] \in late
    /\ pc' = [pc EXCEPT ![m] = "done"]
    /\ running' = 0
    /\ UNCHANGED <<tokVars, chkVars, rtVars, ctorVars, histVars, botVars,
                   message, name, args, idx, awaiting, caught, thrown, log>>

\* for (let command of this.commands): the registry is exhausted
WalkEnd(m) ==
    /\ running = m
    /\ pc[m] = "walk"
    /\ idx[m] > Len(commands)
    /\ pc' = [pc EXCEPT ![m] = "done"]
    /\ running' = 0
    /\ UNCHANGED <<tokVars, chkVars, rtVars, ctorVars, histVars, botVars,
                   message, name, args, idx, awaiting, caught, thrown, log>>

\* command.name === name is false: next command
WalkSkip(m) ==
    /\ running = m
    /\ pc[m] = "walk"
    /\ idx[m] <= Len(commands)
    /\ commands[idx[m]].name # name[m]
    /\ idx' = [idx EXCEPT ![m] = @ + 1]
    /\ UNCHANGED <<tokVars, chkVars, rtVars, ctorVars, histVars, botVars,
                   running, message, pc, name, args, awaiting, caught,
                   thrown, log>>

\* What the handler does when it is called: "throws" (a plain function
\* that throws), or it returns a promise that "settles" or "hangs".
Fates == {"throws", "settles", "hangs"}

\* Variant: the walk stops after the first command that was invoked.
AfterInvocationFirstOnly(m) == Len(commands) + 1

\* Where the loop goes on after the invocation of command idx[m].
AfterInvocation(m) == idx[m] + 1

\* Variant: a dispatch that awaits its handler keeps the thread (a blocking
\* wait).
SuspendBlocking(m) == m

\* await: the dispatch is suspended and the thread is free for other code.
Suspend(m) == 0

\* command.name === name && command.performChecks(message), and on true
\* the call  command.commandFunction(message, ...args)  (lines 167-169)
WalkMatch(m) ==
    /\ running = m
    /\ pc[m] = "walk"
    /\ idx[m] <= Len(commands)
    /\ commands[idx[m]].name = name[m]
    /\ \E beh \in [1..Len(commands[idx[m]].checks) -> Outcomes] :
         LET i == idx[m]
             chk == PerformChecks(commands[i].checks, beh)
             seen == log[m] \o CheckEvents("check", i, chk.calls, beh)
             call == Event("call", i, 0, "", message[m], args[m])
         IN \/ /\ chk.ret = "throw"
               /\ pc' = [pc EXCEPT ![m] = "failed"]
               /\ thrown' = [thrown EXCEPT ![m] = CheckError]
               /\ log' = [log EXCEPT ![m] = seen]
               /\ running' = 0
               /\ UNCHANGED <<idx, awaiting, caught>>
            \/ /\ chk.ret = "false"
               /\ idx' = [idx EXCEPT ![m] = @ + 1]
               /\ log' = [log EXCEPT ![m] = seen]
               /\ UNCHANGED <<running, pc, awaiting, caught, thrown>>
            \/ /\ chk.ret = "true"
               /\ \E fate \in Fates :
                    IF fate = "throws"
                    THEN \E e \in HandlerErrors :
                           /\ log' = [log EXCEPT ![m] = seen \o
                                 <<call, Event("raise", i, 0, e, NoMsg, <<>>)>>]
                           /\ caught' = [caught EXCEPT ![m] = e]
                           /\ pc' = [pc EXCEPT ![m] = "catch"]
                           /\ UNCHANGED <<running, awaiting>>
                    ELSE /\ log' = [log EXCEPT ![m] = Append(seen, call)]
                         /\ awaiting' = [awaiting EXCEPT ![m] = fate]
                         /\ pc' = [pc EXCEPT ![m] = "awaitHandler"]
                         /\ running' = Suspend(m)
                         /\ UNCHANGED caught
               /\ UNCHANGED <<idx, thrown>>
    /\ UNCHANGED <<tokVars, chkVars, rtVars, ctorVars, histVars, botVars,
                   message, name, args>>

\* await command.commandFunction(...): the promise is fulfilled or rejected
SettleHandler(m) ==
    /\ running = 0
    /\ pc[m] = "awaitHandler"
    /\ awaiting[m] = "settles"
    /\ \/ /\ pc' = [pc EXCEPT ![m] = "walk"]
          /\ idx' = [idx EXCEPT ![m] = AfterInvocation(m)]
          /\ UNCHANGED <<caught, log>>
       \/ \E e \in HandlerErrors :
            /\ pc' = [pc EXCEPT ![m] = "catch"]
            /\ caught' = [caught EXCEPT ![m] = e]
            /\ log' = [log EXCEPT ![m] =
                  Append(@, Event("raise", idx[m], 0, e, NoMsg, <<>>))]
            /\ UNCHANGED idx
    /\ running' = m
    /\ awaiting' = [awaiting EXCEPT ![m] = "none"]
    /\ UNCHANGED <<tokVars, chkVars, rtVars, ctorVars, histVars, botVars,
                   message, name, args, thrown>>

\* Variant: the error handler is given a new error made from the caught one.
ErrorPassedWrapped(m) == ErrorHandlerError

\* The error handed to the error handler: catch (error) { ...(message, error)
ErrorPassed(m) == caught[m]

\* Variant: the default error handler throws an error of its own.
DefaultErrorHandlerOwn(error) == ErrorHandlerError

\* defaultErrorHandler(message, error) { throw error; }: what it throws
DefaultErrorHandler(error) == error

\* Variant: the error handler is called but its promise is not awaited; the
\* loop goes on while it is pending.
CatchNotAwaited(m) ==
    /\ running = m
    /\ pc[m] = "catch"
    /\ log' = [log EXCEPT ![m] = Append(@,
          Event("errorHandler", idx[m], 0, ErrorPassed(m), message[m], <<>>))]
    /\ pc' = [pc EXCEPT ![m] = "walk"]
    /\ idx' = [idx EXCEPT ![m] = AfterInvocation(m)]
    /\ awaiting' = [awaiting EXCEPT ![m] = "settles"]
    /\ caught' = [caught EXCEPT ![m] = NoError]
    /\ UNCHANGED <<tokVars, chkVars, rtVars, ctorVars, histVars, botVars,
                   message, name, args, running, thrown>>

\* catch (error) { await this.errorHandler(message, error); }: the call.
\* defaultErrorHandler throws the error it is given; a custom handler may
\* throw, or return a promise that settles or hangs.
Catch(m) ==
    /\ running = m
    /\ pc[m] = "catch"
    /\ log' = [log EXCEPT ![m] = Append(@,
          Event("errorHandler", idx[m], 0, ErrorPassed(m), message[m], <<>>))]
    /\ \/ /\ errorHandler = "default"
          /\ pc' = [pc EXCEPT ![m] = "failed"]
          /\ thrown' = [thrown EXCEPT ![m] =
                 DefaultErrorHandler(ErrorPassed(m))]
          /\ running' = 0
          /\ UNCHANGED awaiting
       \/ /\ errorHandler = "custom"
          /\ \E fate \in Fates :
               IF fate = "throws"
               THEN /\ pc' = [pc EXCEPT ![m] = "failed"]
                    /\ thrown' = [thrown EXCEPT ![m] = ErrorHandlerError]
                    /\ running' = 0
                    /\ UNCHANGED awaiting
               ELSE /\ pc' = [pc EXCEPT ![m] = "awaitErrorHandler"]
                    /\ awaiting' = [awaiting EXCEPT ![m] = fate]
                    /\ running' = 0
                    /\ UNCHANGED thrown
    /\ caught' = [caught EXCEPT ![m] = NoError]
    /\ UNCHANGED <<tokVars, chkVars, rtVars, ctorVars, histVars, botVars,
                   message, name, args, idx>>

\* await this.errorHandler(...): the promise is fulfilled or rejected
SettleErrorHandler(m) ==
    /\ running = 0
    /\ pc[m] = "awaitErrorHandler"
    /\ awaiting[m] = "settles"
    /\ \/ /\ pc' = [pc EXCEPT ![m] = "walk"]
          /\ idx' = [idx EXCEPT ![m] = AfterInvocation(m)]
          /\ running' = m
          /\ UNCHANGED thrown
       \/ /\ pc' = [pc EXCEPT ![m] = "failed"]
          /\ thrown' = [thrown EXCEPT ![m] = ErrorHandlerError]
          /\ UNCHANGED <<idx, running>>
    /\ awaiting' = [awaiting EXCEPT ![m] = "none"]
    /\ UNCHANGED <<tokVars, chkVars, rtVars, ctorVars, histVars, botVars,
                   message, name, args, caught, log>>

\* One message is delivered.
Inboxes == {[m \in MsgIds |-> IF m = 1 THEN x ELSE NoMsg] : x \in Messages}

Init ==
    /\ TokIdle
    /\ ChkIdle
    /\ RtIdle
    /\ CtorIdle
    /\ HistIdle
    /\ BotInit
    /\ \E inbox \in Inboxes : DispInit(inbox)

Next ==
    \/ AddCommand
    \/ AddCheck
    \/ CommandAddCheck
    \/ \E m \in MsgIds :
          \/ Receive(m)
          \/ WalkEnd(m)
          \/ WalkSkip(m)
          \/ WalkMatch(m)
          \/ SettleHandler(m)
          \/ Catch(m)
          \/ SettleErrorHandler(m)

Spec == Init /\ [][Next]_vars

\* ------------------------------------------------------------------------
\* Two dispatches interleaved over a fixed registry, with fair scheduling
\* ------------------------------------------------------------------------

\* The messages of users that start with the prefix.
UserCommands ==
    {x \in Messages : ~x.author.bot /\ StartsWith(x.content, <<"$">>)}

\* The registries the two dispatches run over: one command, two commands of
\* one name, two commands of different names; with and without a check.
ConcRegistries ==
    {<<NewCommand(Ping, CheckList(1))>>,
     <<NewCommand(Ping, <<>>), NewCommand(Ping, CheckList(1))>>,
     <<NewCommand(Pong, <<>>), NewCommand(Ping, <<>>)>>}

ConcInit ==
    /\ TokIdle
    /\ ChkIdle
    /\ RtIdle
    /\ CtorIdle
    /\ HistIdle
    /\ prefix = <<"$">>
    /\ commands \in ConcRegistries
    /\ checks \in {<<>>, CheckList(1)}
    /\ errorHandler \in {"default", "custom"}
    /\ \E inbox \in [MsgIds -> UserCommands] : DispInit(inbox)

\* One step of the dispatch of message m.
Dispatch(m) ==
    \/ Receive(m)
    \/ WalkEnd(m)
    \/ WalkSkip(m)
    \/ WalkMatch(m)
    \/ SettleHandler(m)
    \/ Catch(m)
    \/ SettleErrorHandler(m)

ConcNext == \E m \in MsgIds : Dispatch(m)

\* The event loop delivers every message and runs every continuation that
\* is ready; a promise that settles does settle.
ConcFair == \A m \in MsgIds : WF_vars(Dispatch(m))

SpecConc == ConcInit /\ [][ConcNext]_vars /\ ConcFair

\* ------------------------------------------------------------------------
\* One dispatch, with commands added while it awaits a handler
\* ------------------------------------------------------------------------

\* Bot.addCommand(cmd) called while a dispatch is suspended on the await of
\* a handler; the place the command takes in the registry is remembered.
AddCommandInFlight ==
    /\ running = 0
    /\ \E m \in MsgIds : pc[m] = "awaitHandler"
    /\ Len(commands) < MaxCmds
    /\ \E cmd \in NewCommands : commands' = Append(commands, cmd)
    /\ late' = late \cup {Len(commands) + 1}
    /\ UNCHANGED <<tokVars, chkVars, rtVars, ctorVars, prefix, checks,
                   errorHandler, dispVars>>

LiveInit ==
    /\ TokIdle
    /\ ChkIdle
    /\ RtIdle
    /\ CtorIdle
    /\ HistIdle
    /\ prefix = <<"$">>
    /\ commands \in {<<c>> : c \in NewCommands}
    /\ checks \in {<<>>, CheckList(1)}
    /\ errorHandler \in {"default", "custom"}
    /\ \E inbox \in Inboxes : inbox[1] \in UserCommands /\ DispInit(inbox)

LiveNext == AddCommandInFlight \/ \E m \in MsgIds : Dispatch(m)

SpecLive == LiveInit /\ [][LiveNext]_vars



\* ------------------------------------------------------------------------
\* Reading an argument remainder by position, independently of the scan
\* ------------------------------------------------------------------------

RECURSIVE EscapedAt(_, _)
\* The character at position k follows an unescaped backslash.
EscapedAt(text, k) ==
    k > 1 /\ text[k - 1] = BACKSLASH /\ ~EscapedAt(text, k - 1)

\* Position k holds an unescaped double-quote.
QuoteAt(text, k) == text[k] = QUOTE /\ ~EscapedAt(text, k)

\* An odd number of unescaped double-quotes lies before position k: the
\* character at k is after an opening quote that is not yet closed.
InQuoteAt(text, k) ==
    Cardinality({j \in 1..(k - 1) : QuoteAt(text, j)}) % 2 = 1

\* The text ends inside a quote that is never closed.
Unterminated(text) == InQuoteAt(text, Len(text) + 1)

\* Position of the last unescaped double-quote of a text that has one.
LastQuote(text) ==
    CHOOSE q \in 1..Len(text) :
        /\ QuoteAt(text, q)
        /\ \A j \in (q + 1)..Len(text) : ~QuoteAt(text, j)

RECURSIVE LiteralFrom(_, _)
\* The characters from position k on with the escaping backslashes (and a
\* trailing unmatched one) removed.
LiteralFrom(text, k) ==
    IF k > Len(text) THEN <<>>
    ELSE IF text[k] = BACKSLASH /\ ~EscapedAt(text, k)
         THEN LiteralFrom(text, k + 1)
         ELSE <<text[k]>> \o LiteralFrom(text, k + 1)

IsSuffix(t, u) ==
    Len(t) <= Len(u) /\ SubSeq(u, Len(u) - Len(t) + 1, Len(u)) = t

\* The scan is about to process the character at pos / has just done so.
Scanning == tpc = "scan" /\ pos <= Len(argStr)
Stepped == Scanning /\ pos' = pos + 1
Cur == argStr[pos]

\* ------------------------------------------------------------------------
\* Claims about the tokenizer (checked under SpecTok)
\* ------------------------------------------------------------------------

\* C1: a space between an unescaped opening double-quote and its closing
\* double-quote never splits a token (no token is emitted, the space joins
\* the current token), an unescaped double-quote is never made part of a
\* token, and the remainder  a "b c" d  gives exactly [a, b c, d].
C1_QuotedSpaceKept ==
    [][/\ (Stepped /\ InQuoteAt(argStr, pos) /\ ~EscapedAt(argStr, pos)
              /\ Cur = SPACE)
            => /\ scan'.argArr = scan.argArr
               /\ scan'.buffer = Append(scan.buffer, SPACE)
               /\ scan'.inQuote
       /\ (Stepped /\ QuoteAt(argStr, pos))
            => /\ scan'.buffer \in {scan.buffer, <<>>}
               /\ scan'.argArr \in {scan.argArr, Append(scan.argArr, scan.buffer)}
       /\ (tpc' = "done" /\ argStr = ExQuoted)
            => result' = << <<"a">>, <<"b", " ", "c">>, <<"d">> >>
      ]_vars

C1_Witness ==
    /\ tpc = "done"
    /\ argStr = ExQuoted
    /\ result = << <<"a">>, <<"b", " ", "c">>, <<"d">> >>

\* C2: the character after an unescaped backslash is appended to the current
\* token as it is (quote, space or backslash alike), the quote state is kept
\* and no token ends; the escaping backslash itself is not appended.
C2_EscapeLiteral ==
    [][/\ (Stepped /\ EscapedAt(argStr, pos))
            => /\ scan'.buffer = Append(scan.buffer, Cur)
               /\ scan'.argArr = scan.argArr
               /\ scan'.inQuote = scan.inQuote
               /\ ~scan'.escaped
       /\ (Stepped /\ ~EscapedAt(argStr, pos) /\ Cur = BACKSLASH)
            => /\ scan'.buffer = scan.buffer
               /\ scan'.argArr = scan.argArr
               /\ scan'.inQuote = scan.inQuote
       /\ (tpc' = "done" /\ argStr = ExEscapedSpace)
            => result' = << <<"a", " ", "b">> >>
       /\ (tpc' = "done" /\ argStr = ExEscapedQuotes)
            => result' = << <<"\"", "q", "u", "o", "t", "e", "d", "\"">> >>
      ]_vars

C2_Witness ==
    /\ tpc = "done"
    /\ argStr = ExEscapedQuotes
    /\ result = << <<"\"", "q", "u", "o", "t", "e", "d", "\"">> >>

\* C3: no token is ever empty; an empty remainder, a remainder made of
\* unquoted spaces only, and an empty quoted pair produce no token.
C3_NoEmptyToken ==
    /\ \A n \in 1..Len(scan.argArr) : scan.argArr[n] # <<>>
    /\ \A n \in 1..Len(result) : result[n] # <<>>
    /\ (tpc = "done" /\ \A k \in 1..Len(argStr) : argStr[k] = SPACE)
          => result = <<>>
    /\ (tpc = "done" /\ argStr = <<QUOTE, QUOTE>>) => result = <<>>
    /\ (tpc = "done" /\ argStr = ExDoubleSpace)
          => result = << <<"a">>, <<"b">> >>

C3_Witness ==
    /\ tpc = "done"
    /\ argStr = <<"a", SPACE, QUOTE, QUOTE>>
    /\ result = << <<"a">> >>

\* C4: when the remainder ends inside a quote that is never closed, the scan
\* still completes, and the characters after the opening quote (spaces
\* included, escapes resolved) end the final token, which is emitted when
\* they are not empty.
C4_UnterminatedQuote ==
    (tpc = "done" /\ Unterminated(argStr)) =>
        LET rest == LiteralFrom(argStr, LastQuote(argStr) + 1)
        IN /\ rest # <<>> =>
                /\ result # <<>>
                /\ IsSuffix(rest, result[Len(result)])
           /\ scan.buffer # <<>> => result = Append(scan.argArr, scan.buffer)
           /\ argStr = ExUnterminated => result = <<Tail(ExUnterminated)>>

C4_Witness ==
    /\ tpc = "done"
    /\ argStr = <<QUOTE, "a", SPACE, "b">>
    /\ result = << <<"a", SPACE, "b">> >>

\* C5: an unescaped closing double-quote ends the current token at once,
\* whatever follows it; an unescaped opening double-quote leaves the token
\* under construction as it is.
C5_QuoteBoundaries ==
    [][/\ (Stepped /\ QuoteAt(argStr, pos) /\ InQuoteAt(argStr, pos))
            => /\ scan'.buffer = <<>>
               /\ scan'.argArr = IF scan.buffer # <<>>
                                 THEN Append(scan.argArr, scan.buffer)
                                 ELSE scan.argArr
               /\ ~scan'.inQuote
       /\ (Stepped /\ QuoteAt(argStr, pos) /\ ~InQuoteAt(argStr, pos))
            => /\ scan'.buffer = scan.buffer
               /\ scan'.argArr = scan.argArr
               /\ scan'.inQuote
       /\ (tpc' = "done" /\ argStr = <<QUOTE, "a", QUOTE, "b">>)
            => result' = << <<"a">>, <<"b">> >>
       /\ (tpc' = "done" /\ argStr = <<"a", QUOTE, "b", QUOTE>>)
            => result' = << <<"a", "b">> >>
      ]_vars

C5_Witness ==
    /\ tpc = "done"
    /\ argStr = <<QUOTE, "a", QUOTE, "b">>
    /\ result = << <<"a">>, <<"b">> >>

\* ------------------------------------------------------------------------
\* Claims about performChecks (checked under SpecChk)
\* ------------------------------------------------------------------------

\* C9: performChecks calls the checks in registration order, returns false
\* at the first check that returns false without calling a later one, and
\* returns true exactly when the list is empty or every check returned true.
C9_PerformChecksShortCircuit ==
    chkOut # NotRun =>
        LET n == Len(chkIn)
            c == Len(chkOut.calls)
        IN /\ c <= n
           /\ chkOut.calls = [k \in 1..c |-> k]
           /\ \A k \in 1..(c - 1) : chkIn[k] = "T"
           /\ chkOut.ret = "false" => (c >= 1 /\ chkIn[c] = "F")
           /\ \A k \in 1..n :
                 (chkIn[k] = "F" /\ \A j \in 1..(k - 1) : chkIn[j] = "T")
                    => (chkOut.ret = "false" /\ c = k)
           /\ chkOut.ret = "true" <=> \A k \in 1..n : chkIn[k] = "T"
           /\ chkIn = <<"T", "F", "T">>
                 => (chkOut.ret = "false" /\ chkOut.calls = <<1, 2>>)

C9_Witness ==
    /\ chkIn = <<"T", "F", "T">>
    /\ chkOut = [ret |-> "false", calls |-> <<1, 2>>]

\* ------------------------------------------------------------------------
\* Claims about the dispatcher (checked under Spec)
\* ------------------------------------------------------------------------

\* Places of the trace of dispatch m that hold an event of kind ev.
Places(m, ev) == {p \in 1..Len(log[m]) : log[m][p].ev = ev}

\* The handler of command i was invoked by dispatch m.
Called(m, i) == \E p \in Places(m, "call") : log[m][p].cmd = i

\* The walk of dispatch m came to command i (whose name is the verb).
Visited(m, i) ==
    Called(m, i) \/ \E p \in Places(m, "check") : log[m][p].cmd = i

\* Every check of command i was called by dispatch m and returned true.
ChecksAllTrue(m, i) ==
    \A k \in 1..Len(commands[i].checks) :
        \E p \in Places(m, "check") :
            log[m][p].cmd = i /\ log[m][p].k = k /\ log[m][p].res = "T"

\* The handlers were invoked in registration order.
CallsInOrder(m) ==
    \A p, q \in Places(m, "call") : p < q => log[m][p].cmd < log[m][q].cmd

AllMatchesFired(m) ==
    /\ \A i \in 1..Len(commands) :
          commands[i].name = name[m] =>
              /\ Visited(m, i)
              /\ ChecksAllTrue(m, i) => Called(m, i)
    /\ CallsInOrder(m)

InWalk(m) == pc[m] \in {"walk", "catch", "awaitHandler", "awaitErrorHandler"}

\* C6 as stated: when a dispatch that passed the filter and the global
\* checks is over, however it ended and whatever the earlier handlers did,
\* every command named like the verb whose checks all returned true has had
\* its handler invoked, in registration order. (Dispatches ended by a
\* raising check are left out: the statement is about handler outcomes.)
C6_Original ==
    [][\A m \in MsgIds :
          (InWalk(m) /\ pc'[m] \in {"done", "failed"}
              /\ thrown'[m] # CheckError)
            => AllMatchesFired(m)'
      ]_vars

\* C6 amended: when a dispatch that passed the filter and the global checks
\* completes without an error leaving it, every command named like the verb
\* has been visited by the walk, each one whose checks all returned true has
\* had its handler invoked, and the handlers were invoked in registration
\* order.
C6_AllMatchesFire ==
    [][\A m \in MsgIds :
          (InWalk(m) /\ pc'[m] = "done") => AllMatchesFired(m)'
      ]_vars

C6_Witness ==
    /\ pc[1] = "done"
    /\ Len(commands) = 2
    /\ commands[1].name = commands[2].name
    /\ Called(1, 1)
    /\ Called(1, 2)
    /\ \E p \in Places(1, "raise") : log[1][p].cmd = 1

\* C7: an error raised by a handler (thrown by the call or carried by the
\* rejected promise) is handed to the error handler at once, once, together
\* with the dispatch's message and as the same error; the error handler is
\* called for nothing else, and no handler is invoked a second time.
C7_ErrorRouting ==
    \A m \in MsgIds :
        /\ \A p \in Places(m, "raise") :
              IF p = Len(log[m])
              THEN pc[m] = "catch" /\ caught[m] = log[m][p].res
              ELSE log[m][p + 1] =
                       Event("errorHandler", log[m][p].cmd, 0, log[m][p].res,
                             message[m], <<>>)
        /\ \A p \in Places(m, "errorHandler") :
              p > 1 /\ log[m][p - 1].ev = "raise"
        /\ \A p, q \in Places(m, "call") :
              log[m][p].cmd = log[m][q].cmd => p = q

C7_Witness ==
    /\ pc[1] = "awaitErrorHandler"
    /\ \E p \in Places(1, "raise") :
          /\ log[1][p].res \in HandlerErrors
          /\ p + 1 = Len(log[1])
          /\ log[1][p + 1].ev = "errorHandler"
          /\ log[1][p + 1].res = log[1][p].res
          /\ log[1][p + 1].msg = message[1]

\* C8: a global check that returns false ends the dispatch silently: it is
\* the last call the dispatch makes (no later global check, no per-command
\* check, no handler, no error handler) and no error leaves the dispatch.
C8_GlobalGate ==
    \A m \in MsgIds :
        \A p \in Places(m, "globalCheck") :
            log[m][p].res = "F" =>
                /\ p = Len(log[m])
                /\ pc[m] = "done"
                /\ thrown[m] = NoError
                /\ running # m

C8_Witness ==
    /\ pc[1] = "done"
    /\ Len(checks) = 2
    /\ Len(commands) > 0
    /\ commands[1].name = name[1]
    /\ Len(log[1]) = 1
    /\ log[1][1].ev = "globalCheck"
    /\ log[1][1].res = "F"

\* The dispatch of message m has gone past the filter of on_message.
Dispatched(m) == pc[m] \notin {"new", "ignored"}

\* A message that was filtered out left no trace at all.
Untouched(m) ==
    /\ log[m] = <<>>
    /\ name[m] = <<>>
    /\ args[m] = <<>>
    /\ idx[m] = 0
    /\ thrown[m] = NoError
    /\ caught[m] = NoError
    /\ awaiting[m] = "none"

\* C10 as stated: a delivered message is ignored unless its author is not
\* the bot itself and its content starts with the prefix; a message meeting
\* both conditions proceeds to dispatch.
C10_Original ==
    \A m \in MsgIds :
        pc[m] # "new" =>
            (Dispatched(m) <=>
                (message[m].author.id # "self"
                    /\ StartsWith(message[m].content, prefix)))

\* C10 amended: a delivered message is ignored entirely (nothing tokenized,
\* no check, no handler, no error handler) unless its author is not a bot
\* account (the author's bot flag is off) and its content starts with the
\* prefix; a message meeting both conditions proceeds to dispatch.
C10_MessageFilter ==
    \A m \in MsgIds :
        pc[m] # "new" =>
            /\ Dispatched(m) <=>
                  (~message[m].author.bot
                      /\ StartsWith(message[m].content, prefix))
            /\ ~Dispatched(m) => Untouched(m)

C10_Witness ==
    /\ pc[1] = "ignored"
    /\ message[1].author.id = "otherBot"
    /\ StartsWith(message[1].content, prefix)
    /\ Len(commands) > 0

\* ------------------------------------------------------------------------
\* Claims about the Command constructor (checked under SpecCmd)
\* ------------------------------------------------------------------------

\* The name argument is left out, empty, or holds a space.
NameUnusable(x) == Falsy(x) \/ IncludesSpace(x.val)

\* C11: the name of a constructed Command never holds a space, whatever
\* handler and name were given; a name argument that is left out, empty or
\* holds a space is replaced by the handler's own name.
C11_NameHasNoSpace ==
    built.status = "built" =>
        /\ ~IncludesSpace(built.name)
        /\ NameUnusable(ctorArgs.name)
              => built.name = ctorArgs.commandFunction.name

\* C12: a Command constructed without a usage string has as usage the
\* handler's declared parameter names joined by single spaces, the first
\* parameter left out as a whole: (msg, arg1) gives "arg1", (msg) gives "".
C12_DefaultUsage ==
    (built.status = "built" /\ ~ctorArgs.usage.given) =>
        built.usage = join(slice1(ctorArgs.commandFunction.params))

\* ------------------------------------------------------------------------
\* Claims about checks that raise (checked under Spec)
\* ------------------------------------------------------------------------

\* The places of the trace of dispatch m where a command's check raised.
RaisedChecks(m) == {p \in Places(m, "check") : log[m][p].res = "X"}

C14_CheckErrorHandled ==
    \A m \in MsgIds : \A p \in RaisedChecks(m) :
        pc[m] \in {"done", "failed"} =>
            \E q \in Places(m, "errorHandler") :
                /\ q > p
                /\ log[m][q].res = CheckError
                /\ log[m][q].msg = message[m]

\* ------------------------------------------------------------------------
\* Claims about what a dispatch calls, and in which order (under Spec)
\* ------------------------------------------------------------------------

\* The place of the first space of s (Len(s) + 1 when it has none).
FirstSpace(s) ==
    IF IncludesSpace(s)
    THEN CHOOSE k \in 1..Len(s) :
            s[k] = SPACE /\ \A j \in 1..(k - 1) : s[j] # SPACE
    ELSE Len(s) + 1

\* The verb of a content that starts with the prefix: its first word
\* without the prefix.
VerbOf(content) == SubSeq(content, Len(prefix) + 1, FirstSpace(content) - 1)

\* The content after its first space.
RestOf(content) == SubSeq(content, FirstSpace(content) + 1, Len(content))

\* The places that the step adds to the trace of dispatch m.
NewPlaces(m) == (Len(log[m]) + 1)..Len(log'[m])

\* Global check k was called by dispatch m and returned true.
GlobalCheckTrue(m, k) ==
    \E q \in Places(m, "globalCheck") : log[m][q].k = k /\ log[m][q].res = "T"

\* C16: a dispatch goes on to the registry only when its message passed the
\* filter and every global check returned true; and a handler is invoked
\* only from there, for a command whose name is the verb and whose checks
\* have all just returned true, with the message and the tokens of the
\* content after its first space.
C16_InvocationGuard ==
    [][\A m \in MsgIds :
         /\ (pc[m] = "new" /\ pc'[m] \notin {"new", "ignored"}) =>
               /\ ~message[m].author.bot
               /\ StartsWith(message[m].content, prefix)
         /\ (pc[m] = "new" /\ pc'[m] = "walk") =>
               \A k \in 1..Len(checks) : GlobalCheckTrue(m, k)'
         /\ \A p \in NewPlaces(m) :
               log'[m][p].ev = "call" =>
                   LET e == log'[m][p]
                   IN /\ pc[m] = "walk"
                      /\ \A q \in Places(m, "globalCheck") :
                            log[m][q].res = "T"
                      /\ commands[e.cmd].name = VerbOf(message[m].content)
                      /\ \A k \in 1..Len(commands[e.cmd].checks) :
                            \E q \in NewPlaces(m) :
                               /\ q < p
                               /\ log'[m][q].ev = "check"
                               /\ log'[m][q].cmd = e.cmd
                               /\ log'[m][q].k = k
                               /\ log'[m][q].res = "T"
                      /\ \A q \in Places(m, "check")' :
                            log'[m][q].cmd = e.cmd => log'[m][q].res = "T"
                      /\ e.msg = message[m]
                      /\ e.args = FinalFlush(ScanFrom(ScanInit,
                                      RestOf(message[m].content), 1))]_vars

C16_Witness ==
    /\ Len(checks) = 2
    /\ \E p \in Places(1, "call") :
          /\ Len(commands[log[1][p].cmd].checks) = 1
          /\ log[1][p].args = << <<"a">>, <<"b", SPACE, "c">> >>
          /\ log[1][p].msg = message[1]
          /\ commands[log[1][p].cmd].name = Ping

\* C18: with the default error handler, an error raised by a handler leaves
\* the dispatch as that same error: once the error handler has been called
\* the dispatch has failed with the raised error and did nothing more. With
\* a custom error handler, no dispatch ever fails with a handler's error.
C18_DefaultIsFatal ==
    \A m \in MsgIds :
        /\ errorHandler = "default" =>
              \A p \in Places(m, "raise") :
                  \/ pc[m] = "catch" /\ p = Len(log[m])
                  \/ /\ pc[m] = "failed"
                     /\ thrown[m] = log[m][p].res
                     /\ p + 1 = Len(log[m])
                     /\ log[m][p + 1].ev = "errorHandler"
        /\ errorHandler = "custom" => thrown[m] \notin HandlerErrors

C18_Witness ==
    /\ errorHandler = "default"
    /\ pc[1] = "failed"
    /\ thrown[1] \in HandlerErrors
    /\ \E p \in Places(1, "raise") : log[1][p].res = thrown[1]

\* The order of a trace: the global checks come first, in registration
\* order; then the commands follow one another in registry order, and for
\* each command its checks, then the call of its handler, then what the
\* handler raised, then the call of the error handler.
Rank(e) ==
    CASE e.ev = "globalCheck" -> 0
      [] e.ev = "check" -> 1
      [] e.ev = "call" -> 2
      [] e.ev = "raise" -> 3
      [] OTHER -> 4

\* Entry a may come before entry b in the trace of one dispatch.
Before(a, b) ==
    /\ a.cmd <= b.cmd
    /\ a.cmd = b.cmd => Rank(a) <= Rank(b)
    /\ (a.cmd = b.cmd /\ Rank(a) = Rank(b)) =>
          (a.ev \in {"globalCheck", "check"} /\ a.k < b.k)
    /\ a.ev = "globalCheck" <=> a.cmd = 0

\* The step only adds to the trace of dispatch m, and what it adds is in
\* order with all that comes before it.
AddsInOrder(m) ==
    /\ Len(log[m]) <= Len(log'[m])
    /\ SubSeq(log'[m], 1, Len(log[m])) = log[m]
    /\ \A q \in NewPlaces(m) : \A p \in 1..(q - 1) :
          Before(log'[m][p], log'[m][q])

\* C17: in one dispatch the global checks are all evaluated, in order,
\* before any command's check or handler; a command's checks are evaluated
\* before its handler starts; and a check is evaluated or a handler started
\* only while the dispatch is walking the registry with no handler or error
\* handler of its own still pending, for a command later than all those it
\* has dealt with: two handlers of one dispatch never overlap.
C17_EventOrder ==
    [][\A m \in MsgIds :
         /\ AddsInOrder(m)
         /\ \A p \in NewPlaces(m) :
               LET e == log'[m][p]
               IN /\ e.ev = "globalCheck" => pc[m] = "new" /\ log[m] = <<>>
                  /\ e.ev \in {"check", "call"} =>
                        /\ pc[m] = "walk"
                        /\ awaiting[m] = "none"
                        /\ caught[m] = NoError
                        /\ e.cmd = idx[m]
                        /\ \A q \in 1..Len(log[m]) : log[m][q].cmd < idx[m]
                  /\ e.ev = "errorHandler" =>
                        /\ pc[m] = "catch"
                        /\ awaiting[m] = "none"
                        /\ e.cmd = idx[m]
         /\ pc[m] \in {"awaitHandler", "awaitErrorHandler"} =>
               /\ awaiting[m] # "none"
               /\ pc'[m] = pc[m] => idx'[m] = idx[m]]_vars

C17_Witness ==
    /\ pc[1] = "done"
    /\ Places(1, "globalCheck") # {}
    /\ Called(1, 1)
    /\ Called(1, 2)
    /\ \E p \in Places(1, "errorHandler") : log[1][p].cmd = 1
    /\ \E p \in Places(1, "check") : log[1][p].cmd = 2

\* C20: the walk reads the registry as it is at each step: when a dispatch
\* completes, every command that was appended while it was suspended on a
\* handler and whose name is the verb has been visited by it, and has been
\* invoked by it if its checks all returned true.
C20_LiveRegistry ==
    [][\A m \in MsgIds :
         (pc[m] = "walk" /\ pc'[m] = "done") =>
             \A j \in late :
                 commands[j].name = name[m] =>
                     /\ Visited(m, j)
                     /\ ChecksAllTrue(m, j) => Called(m, j)]_vars

C20_Witness ==
    /\ pc[1] = "done"
    /\ late = {2}
    /\ Called(1, 1)
    /\ Called(1, 2)

\* ------------------------------------------------------------------------
\* Claim about writing tokens out and reading them back (under SpecRound)
\* ------------------------------------------------------------------------

\* C19: a sequence of non-empty strings, written out with every
\* double-quote and backslash of a string prefixed by a backslash, every
\* string wrapped in double-quotes and the strings joined by single spaces,
\* is tokenized back to exactly that sequence.
C19_RoundTrip ==
    tpc = "done" => (argStr = Encode(orig) /\ result = orig)

C19_Witness ==
    /\ tpc = "done"
    /\ orig = << <<"a", SPACE>>, <<QUOTE>> >>
    /\ argStr = <<QUOTE, "a", SPACE, QUOTE, SPACE,
                  QUOTE, BACKSLASH, QUOTE, QUOTE>>
    /\ result = orig

\* ------------------------------------------------------------------------
\* Claim about interleaved dispatches (checked under SpecConc)
\* ------------------------------------------------------------------------

\* Dispatch m awaits a handler that never completes.
Hung(m) == pc[m] = "awaitHandler" /\ awaiting[m] = "hangs"

\* Dispatch m ended, or is stopped by something of its own: an error left
\* it, or it awaits a handler or error handler of its own that never
\* completes.
Over(m) ==
    \/ pc[m] = "done"
    \/ pc[m] = "failed"
    \/ pc[m] \in {"awaitHandler", "awaitErrorHandler"} /\ awaiting[m] = "hangs"

\* Dispatch m passed the global checks and dealt with the whole registry.
WalkedAll(m) ==
    /\ \A q \in Places(m, "globalCheck") : log[m][q].res = "T"
    /\ \A k \in 1..Len(checks) : GlobalCheckTrue(m, k)
    /\ AllMatchesFired(m)

\* C15: a dispatch whose handler never completes stays suspended there for
\* ever and never is done; a dispatch of another message, not yet started
\* then, still runs to its end: unless an error or a hanging handler of its
\* own stops it, it is done, and when it is done past the global checks it
\* has evaluated the checks of every command named like its verb and
\* invoked the handler of each whose checks returned true.
C15_Independence ==
    /\ [][\A m \in MsgIds : \A n \in MsgIds \ {m} :
             /\ Hung(m) => Hung(m)'
             /\ (Hung(m) /\ pc[n] = "walk" /\ pc'[n] = "done")
                   => WalkedAll(n)']_vars
    /\ \A m \in MsgIds : \A n \in MsgIds \ {m} :
          (Hung(m) /\ pc[n] = "new") ~> Over(n)

C15_Witness ==
    /\ Hung(1)
    /\ pc[2] = "done"
    /\ Places(2, "check") # {}
    /\ Called(2, 2)

====
